---- MODULE Spec2Model ----
(***************************************************************************)
(* Model of embeddings/Titan-V2-Embeddings.ipynb: the boto3 client         *)
(* factory get_bedrock_client, the helper class TitanEmbeddings, the       *)
(* direct invoke_model call of the "Generate Embeddings" cell, and the     *)
(* MTEB adapter TitanV2Model.  The notebook runs in one Python thread; a   *)
(* remote call is split at its blocking point into send / service answer / *)
(* receive so that outstanding requests are visible in the state.          *)
(*                                                                         *)
(* A Python str is a sequence of tokens (a token stands for one or more    *)
(* characters), a Python dict a sequence of <<key, value>> pairs in        *)
(* insertion order, a vector of floats a record [n |-> its length,         *)
(* v |-> a tag standing for its contents].                                 *)
(***************************************************************************)
EXTENDS Integers, Sequences, FiniteSets, TLC

\* ------------------------------------------------------------------ bounds
\* Longest list of texts handed to encode / encode_queries / encode_corpus.
MaxBatch == 2
\* Number of distinct vector contents the remote model can answer with.
MaxVal == 2

\* --------------------------------------------------------- Python strings
Q == "\""
Str(s) == [t |-> "str", s |-> s, d |-> <<>>]
Dict(d) == [t |-> "dict", s |-> <<>>, d |-> d]

RECURSIVE LStrip(_)
LStrip(s) == IF s # <<>> /\ s[1] = " " THEN LStrip(Tail(s)) ELSE s

RECURSIVE RStrip(_)
RStrip(s) ==
    IF s # <<>> /\ s[Len(s)] = " " THEN RStrip(SubSeq(s, 1, Len(s) - 1)) ELSE s

\* str.strip()
Strip(s) == RStrip(LStrip(s))

\* str.lower(), token by token
Lower(s) == [k \in 1..Len(s) |-> IF s[k] = "Title" THEN "title" ELSE s[k]]

\* " ".join(parts)
RECURSIVE Join(_)
Join(parts) ==
    IF parts = <<>> THEN <<>>
    ELSE IF Len(parts) = 1 THEN parts[1]
    ELSE parts[1] \o <<" ">> \o Join(Tail(parts))

\* s[:n]
Prefix(s, n) == SubSeq(s, 1, IF Len(s) < n THEN Len(s) ELSE n)

\* The slice bound of process_dict_text.
MaxTextLen == 30000

\* TitanV2Model.process_dict_text: "<key> <val>" for a key holding 'title',
\* "<val>" otherwise, joined by blanks and cut to 30000.
process_dict_text(single_text_dict) ==
    LET part(kv) ==
            IF \E k \in 1..Len(kv[1]) : Lower(kv[1])[k] = "title"
            THEN Strip(kv[1]) \o <<" ">> \o Strip(kv[2])
            ELSE Strip(kv[2])
        single_text == [k \in 1..Len(single_text_dict) |-> part(single_text_dict[k])]
    IN  Prefix(Join(single_text), MaxTextLen)

\* json.loads on a str: a one-member object {"key":"val"} parses to a dict,
\* a number parses to a number, anything else raises.
JsonLoadsText(s) ==
    LET n == Len(s)
        closes == {j \in 3..n : s[j] = Q}
        j == CHOOSE x \in closes : \A y \in closes : x <= y
    IN  IF /\ n >= 8
           /\ s[1] = "{" /\ s[2] = Q /\ s[n] = "}" /\ s[n - 1] = Q
           /\ closes # {}
           /\ j + 2 <= n - 1
           /\ s[j + 1] = ":" /\ s[j + 2] = Q
           /\ \A k \in (j + 3)..(n - 2) : s[k] # Q
        THEN [ok |-> TRUE, t |-> "dict",
              d |-> << <<SubSeq(s, 3, j - 1), SubSeq(s, j + 3, n - 2)>> >>]
        ELSE IF s = <<"0">>
        THEN [ok |-> TRUE, t |-> "num", d |-> <<>>]
        ELSE [ok |-> FALSE, t |-> "error", d |-> <<>>]

\* TitanV2Model.reorg_text: a dict is flattened, an empty text becomes "0",
\* a text that parses as a JSON object is flattened; every other failure of
\* the try block (parse error, .items() on a non-dict) leaves the text.
reorg_text(single_text) ==
    LET s1 == IF single_text.t = "dict" THEN process_dict_text(single_text.d)
              ELSE single_text.s
        s2 == IF s1 = <<>> THEN <<"0">> ELSE s1
        parsed == JsonLoadsText(s2)
    IN  IF parsed.ok /\ parsed.t = "dict" THEN process_dict_text(parsed.d) ELSE s2

\* ------------------------------------------------------------------- JSON
\* json.dumps of a dict: the members in insertion order, as one text.
JsonDumps(pairs) == [json |-> pairs]

\* json.loads of such a text: a dict looked up by key; of two members with
\* one key the later wins.
JsonLoads(text) ==
    LET m == text.json
        keys == {m[k][1] : k \in 1..Len(m)}
        last(key) == CHOOSE k \in 1..Len(m) :
                        /\ m[k][1] = key
                        /\ \A l \in 1..Len(m) : m[l][1] = key => l <= k
    IN  [key \in keys |-> m[last(key)][2]]

\* A vector of n floats with contents v.
Vec(n, v) == [n |-> n, v |-> v]
NoVec == Vec(0, 0)

\* ----------------------------------------------------------------- client
\* retries.max_attempts of get_bedrock_client's Config.
MaxAttempts == 10

\* get_bedrock_client: a boto3 client record.  profile_name is the value of
\* the environment's AWS_PROFILE ("" when unset).
get_bedrock_client(profile_name, assumed_role, region, runtime, ep_url) ==
    [service_name |-> IF runtime THEN "bedrock-runtime" ELSE "bedrock",
     region_name  |-> region,
     profile_name |-> profile_name,
     retries      |-> [max_attempts |-> MaxAttempts, mode |-> "standard"],
     credentials  |-> IF assumed_role # "" THEN "assumed_role" ELSE "default",
     endpoint_url |-> ep_url]

\* get_bedrock_client() with every argument defaulted.
DefaultClient(profile_name) ==
    get_bedrock_client(profile_name, "", "us-east-1", TRUE, "")

\* ----------------------------------------------------------------- helper
TitanModelId == "amazon.titan-embed-text-v2:0"

\* TitanEmbeddings.__init__ with a boto3_client given.
TitanEmbeddings__init__(model_id, boto3_client) ==
    [model_id |-> model_id, bedrock_boto3 |-> boto3_client,
     accept |-> "application/json", content_type |-> "application/json"]

\* Mutant: the helper drops the caller's normalize flag and always sends true.
HelperRequestNormalizeFixed(self, text, dimensions, normalize) ==
    [via         |-> self.bedrock_boto3,
     body        |-> JsonDumps(<< <<"inputText", text>>,
                                  <<"dimensions", dimensions>>,
                                  <<"normalize", TRUE>> >>),
     modelId     |-> self.model_id,
     accept      |-> self.accept,
     contentType |-> self.content_type]

\* Mutant: the helper sends an accept value of its own, not the class's.
HelperRequestOtherAccept(self, text, dimensions, normalize) ==
    [via         |-> self.bedrock_boto3,
     body        |-> JsonDumps(<< <<"inputText", text>>,
                                  <<"dimensions", dimensions>>,
                                  <<"normalize", normalize>> >>),
     modelId     |-> self.model_id,
     accept      |-> "*/*",
     contentType |-> self.content_type]

\* TitanEmbeddings.__call__, up to the remote call: the invoke_model request.
HelperRequest(self, text, dimensions, normalize) ==
    [via         |-> self.bedrock_boto3,
     body        |-> JsonDumps(<< <<"inputText", text>>,
                                  <<"dimensions", dimensions>>,
                                  <<"normalize", normalize>> >>),
     modelId     |-> self.model_id,
     accept      |-> self.accept,
     contentType |-> self.content_type]

\* Mutant: the helper returns the embedding without its last value.
HelperResultTruncated(response) ==
    LET e == JsonLoads(response.body)["embedding"]
    IN  Vec(e.n - 1, e.v)

\* TitanEmbeddings.__call__, after the remote call: response_body['embedding'].
HelperResult(response) == JsonLoads(response.body)["embedding"]

\* ------------------------------------------------- the direct call (cell 10)
prompt_data == <<"Amazon Bedrock supports foundation models">>

DirectRequest(client) ==
    LET modelId == "amazon.titan-embed-text-v2:0"
        accept == "application/json"
        contentType == "application/json"
        sample_model_input == << <<"inputText", prompt_data>>,
                                 <<"dimensions", 256>>,
                                 <<"normalize", TRUE>> >>
    IN  [via |-> client, body |-> JsonDumps(sample_model_input),
         modelId |-> modelId, accept |-> accept, contentType |-> contentType]

\* response_body.get("embedding")
DirectResult(response) ==
    LET response_body == JsonLoads(response.body)
    IN  IF "embedding" \in DOMAIN response_body
        THEN response_body["embedding"] ELSE NoVec

\* ---------------------------------------------------------------- adapter
\* The default of _init_connection's dim parameter.
DefaultDim == 256

\* TitanV2Model._init_connection(dim): a client and a helper of its own.
_init_connection(profile_name, dim) ==
    [constructed |-> TRUE,
     br_embeddings |-> TitanEmbeddings__init__("amazon.titan-embed-text-v2:0",
                                               DefaultClient(profile_name)),
     dim |-> dim]

\* Mutant: the constructor asks for 512 dimensions.
TitanV2Model__init__Dim512(profile_name) == _init_connection(profile_name, 512)

\* TitanV2Model.__init__
TitanV2Model__init__(profile_name) == _init_connection(profile_name, DefaultDim)

\* np.array(embedding_list) of rows of one length, then
\* reshape_titan_embeddings, which returns its argument.
NpArray(embedding_list) ==
    [shape |-> IF embedding_list = <<>> THEN <<0>>
               ELSE <<Len(embedding_list), embedding_list[1].n>>,
     rows  |-> embedding_list]

reshape_titan_embeddings(query_embeddings) == query_embeddings

\* ------------------------------------------------------------------ inputs
\* Texts a caller hands to the helper.
Texts == {prompt_data, <<"a">>}

\* Values a caller passes as the helper's dimensions argument.
DimArgs == {256, 512, 1024, 100}

\* Items of a list handed to the adapter: an empty text, a plain text, a
\* text holding a JSON object, a number, and a title/text dict.
Items ==
    { Str(<<>>),
      Str(<<"a">>),
      Str(<<"{", Q, "title", Q, ":", Q, "b", Q, "}">>),
      Str(<<"0">>),
      Dict(<< << <<"Title">>, <<"t", " ">> >>, << <<"text">>, <<" ", "x">> >> >>) }

RECURSIVE SeqsUpTo(_, _)
SeqsUpTo(S, n) ==
    IF n = 0 THEN {<<>>}
    ELSE LET shorter == SeqsUpTo(S, n - 1)
         IN  shorter \cup {Append(q, x) : q \in {r \in shorter : Len(r) = n - 1}, x \in S}

TextLists == SeqsUpTo(Items, MaxBatch)

\* Keyword arguments a caller (the benchmark) passes to encode*.
KwargsSet == { <<>>, << <<"dimensions", 1024>>, <<"normalize", FALSE>> >> }

\* Values of the environment's AWS_PROFILE ("" is unset).
Profiles == {"", "dev"}

EncodeOps == {"encode", "encode_queries", "encode_corpus"}

\* ------------------------------------------------------- the remote service
\* Output dimensions the model accepts (notebook: "256, 512 and 1024").
ValidDims == {256, 512, 1024}

\* Errors the SDK raises once its own retries are used up.
Errors == {"ThrottlingException", "ModelTimeoutException"}

NoReply == [status |-> "none", body |-> JsonDumps(<<>>), error |-> ""]
OkReply(e) == [status |-> "ok", body |-> JsonDumps(<< <<"embedding", e>> >>), error |-> ""]
ErrReply(err) == [status |-> "error", body |-> JsonDumps(<<>>), error |-> err]

\* The answers the endpoint can give to a request: a vector of the requested
\* length, or an error; a request for any other dimension is rejected.
Answers(req) ==
    LET dimensions == JsonLoads(req.body)["dimensions"]
    IN  IF dimensions \in ValidDims
        THEN {OkReply(Vec(dimensions, v)) : v \in 1..MaxVal} \cup {ErrReply(err) : err \in Errors}
        ELSE {ErrReply("ValidationException")}

\* ------------------------------------------------------------------- state
VARIABLES
    AWS_PROFILE,            \* os.environ["AWS_PROFILE"], "" when unset
    boto3_bedrock_runtime,  \* the notebook's global client
    bedrock_embeddings,     \* the notebook's global TitanEmbeddings helper
    model,                  \* the latest TitanV2Model instance
    pc,                     \* "idle", "calling" (blocked in invoke_model), "loop", "done"
    op,                     \* the operation running, or the last one run
    args,                   \* its arguments
    idx,                    \* items of text_list the loop has consumed
    list_embeddings,        \* invoke_model's local result list
    wire,                   \* requests at the endpoint, not yet answered, oldest first
    reply,                  \* the answer the blocked call is about to get
    sent,                   \* requests sent by the operation, in order
    recvd,                  \* answers received by the operation, in order
    result                  \* how the operation ended

vars == <<AWS_PROFILE, boto3_bedrock_runtime, bedrock_embeddings, model, pc, op,
          args, idx, list_embeddings, wire, reply, sent, recvd, result>>

NoModel == [constructed |-> FALSE,
            br_embeddings |-> TitanEmbeddings__init__("", DefaultClient("")),
            dim |-> 0]

NoArgs == [text |-> <<>>, dimensions |-> 0, normalize |-> TRUE,
           text_list |-> <<>>, kwargs |-> <<>>]

NoResult == [kind |-> "none", error |-> ""]
Return(value) == [kind |-> "return", error |-> "", value |-> value]
Raise(err) == [kind |-> "raise", error |-> err]

\* The state after the notebook's cells up to "Test connection to bedrock".
Init ==
    /\ AWS_PROFILE \in Profiles
    /\ boto3_bedrock_runtime = DefaultClient(AWS_PROFILE)
    /\ bedrock_embeddings = TitanEmbeddings__init__(TitanModelId, boto3_bedrock_runtime)
    /\ model = NoModel
    /\ pc = "idle"
    /\ op = "none"
    /\ args = NoArgs
    /\ idx = 0
    /\ list_embeddings = <<>>
    /\ wire = <<>>
    /\ reply = NoReply
    /\ sent = <<>>
    /\ recvd = <<>>
    /\ result = NoResult

config == <<AWS_PROFILE, boto3_bedrock_runtime, bedrock_embeddings>>

\* A new top-level operation starts from an idle notebook.
Begin(name, a) ==
    /\ pc = "idle"
    /\ op' = name
    /\ args' = a
    /\ result' = NoResult
    /\ reply' = NoReply

\* The cell that ran the operation ends (its result printed, or its error
\* shown); the notebook is idle again.
CellDone ==
    /\ pc = "done"
    /\ pc' = "idle"
    /\ op' = "none"
    /\ args' = NoArgs
    /\ sent' = <<>>
    /\ recvd' = <<>>
    /\ result' = NoResult
    /\ UNCHANGED <<config, model, idx, list_embeddings, wire, reply>>

\* ----------------------------------------------------------------- actions
\* Cell 10 up to its invoke_model call.
DirectCall ==
    /\ Begin("direct", NoArgs)
    /\ wire' = Append(wire, DirectRequest(boto3_bedrock_runtime))
    /\ sent' = <<DirectRequest(boto3_bedrock_runtime)>>
    /\ recvd' = <<>>
    /\ pc' = "calling"
    /\ UNCHANGED <<config, model, idx, list_embeddings>>

\* Cell 10 after the call returns or raises.
DirectReturn ==
    /\ pc = "calling" /\ op = "direct" /\ reply.status # "none"
    /\ recvd' = Append(recvd, reply)
    /\ result' = IF reply.status = "ok" THEN Return(DirectResult(reply))
                 ELSE Raise(reply.error)
    /\ pc' = "done"
    /\ reply' = NoReply
    /\ UNCHANGED <<config, model, op, args, idx, list_embeddings, wire, sent>>

\* bedrock_embeddings(text, dimensions, normalize) called from a cell, up to
\* the remote call.
HelperCall(text, dimensions, normalize) ==
    /\ Begin("helper", [NoArgs EXCEPT !.text = text, !.dimensions = dimensions,
                                      !.normalize = normalize])
    /\ wire' = Append(wire, HelperRequest(bedrock_embeddings, text, dimensions, normalize))
    /\ sent' = <<HelperRequest(bedrock_embeddings, text, dimensions, normalize)>>
    /\ recvd' = <<>>
    /\ pc' = "calling"
    /\ UNCHANGED <<config, model, idx, list_embeddings>>

\* ... and after it: the embedding is returned, an SDK error propagates.
HelperReturn ==
    /\ pc = "calling" /\ op = "helper" /\ reply.status # "none"
    /\ recvd' = Append(recvd, reply)
    /\ result' = IF reply.status = "ok" THEN Return(HelperResult(reply))
                 ELSE Raise(reply.error)
    /\ pc' = "done"
    /\ reply' = NoReply
    /\ UNCHANGED <<config, model, op, args, idx, list_embeddings, wire, sent>>

\* The endpoint (with the SDK's own retries inside) answers a request.
ServiceAnswer ==
    /\ reply.status = "none"
    /\ \E k \in 1..Len(wire) :
        /\ reply' \in Answers(wire[k])
        /\ wire' = SubSeq(wire, 1, k - 1) \o SubSeq(wire, k + 1, Len(wire))
    /\ UNCHANGED <<config, model, pc, op, args, idx, list_embeddings, sent, recvd, result>>

\* TitanV2Model()
NewTitanV2Model ==
    /\ pc = "idle"
    /\ model' = TitanV2Model__init__(AWS_PROFILE)
    /\ UNCHANGED <<config, pc, op, args, idx, list_embeddings, wire, reply, sent,
                   recvd, result>>

\* model.encode / encode_queries / encode_corpus (text_list, **kwargs): enters
\* invoke_model with an empty list_embeddings.
EncodeCall(name, text_list, kwargs) ==
    /\ model.constructed
    /\ Begin(name, [NoArgs EXCEPT !.text_list = text_list, !.kwargs = kwargs])
    /\ idx' = 0
    /\ list_embeddings' = <<>>
    /\ sent' = <<>>
    /\ recvd' = <<>>
    /\ pc' = "loop"
    /\ UNCHANGED <<config, model, wire>>

\* Mutant: the loop sends the next request without waiting for the answer.
LoopSendNoWait ==
    /\ pc = "loop" /\ idx < Len(args.text_list)
    /\ LET single_text == reorg_text(args.text_list[idx + 1])
           req == HelperRequest(bedrock_embeddings, single_text, model.dim, TRUE)
       IN  /\ wire' = Append(wire, req)
           /\ sent' = Append(sent, req)
    /\ idx' = idx + 1
    /\ UNCHANGED <<config, model, pc, op, args, list_embeddings, reply, recvd, result>>

\* invoke_model's loop head: the next item is reorganised and sent through the
\* global helper with self.dim and normalize=True.
LoopSend ==
    /\ pc = "loop" /\ idx < Len(args.text_list)
    /\ LET single_text == reorg_text(args.text_list[idx + 1])
           req == HelperRequest(bedrock_embeddings, single_text, model.dim, TRUE)
       IN  /\ wire' = Append(wire, req)
           /\ sent' = Append(sent, req)
    /\ pc' = "calling"
    /\ UNCHANGED <<config, model, op, args, idx, list_embeddings, reply, recvd, result>>

\* Mutant: a failed item is sent again instead of the error leaving the loop.
LoopReceiveRetry ==
    /\ pc = "calling" /\ op \in EncodeOps /\ reply.status # "none"
    /\ recvd' = Append(recvd, reply)
    /\ IF reply.status = "ok"
       THEN /\ list_embeddings' = Append(list_embeddings, HelperResult(reply))
            /\ idx' = idx + 1
       ELSE /\ list_embeddings' = list_embeddings
            /\ idx' = idx
    /\ pc' = "loop"
    /\ reply' = NoReply
    /\ UNCHANGED <<config, model, op, args, wire, sent, result>>

\* Mutant: the new embedding is put in front of the list.
LoopReceivePrepend ==
    /\ pc = "calling" /\ op \in EncodeOps /\ reply.status # "none"
    /\ recvd' = Append(recvd, reply)
    /\ IF reply.status = "ok"
       THEN /\ list_embeddings' = <<HelperResult(reply)>> \o list_embeddings
            /\ idx' = idx + 1
            /\ pc' = "loop"
            /\ result' = result
       ELSE /\ list_embeddings' = <<>>
            /\ idx' = 0
            /\ pc' = "done"
            /\ result' = Raise(reply.error)
    /\ reply' = NoReply
    /\ UNCHANGED <<config, model, op, args, wire, sent>>

\* The helper returns inside the loop: the embedding is appended; an error
\* leaves invoke_model and encode*, and the list is dropped.
LoopReceive ==
    /\ pc = "calling" /\ op \in EncodeOps /\ reply.status # "none"
    /\ recvd' = Append(recvd, reply)
    /\ IF reply.status = "ok"
       THEN /\ list_embeddings' = Append(list_embeddings, HelperResult(reply))
            /\ idx' = idx + 1
            /\ pc' = "loop"
            /\ result' = result
       ELSE /\ list_embeddings' = <<>>
            /\ idx' = 0
            /\ pc' = "done"
            /\ result' = Raise(reply.error)
    /\ reply' = NoReply
    /\ UNCHANGED <<config, model, op, args, wire, sent>>

\* The loop is exhausted: encode* returns the reshaped array.
LoopDone ==
    /\ pc = "loop" /\ idx >= Len(args.text_list)
    /\ result' = Return(reshape_titan_embeddings(NpArray(list_embeddings)))
    /\ list_embeddings' = <<>>
    /\ idx' = 0
    /\ pc' = "done"
    /\ UNCHANGED <<config, model, op, args, wire, reply, sent, recvd>>

Next ==
    \/ DirectCall
    \/ DirectReturn
    \/ \E text \in Texts, dimensions \in DimArgs, normalize \in BOOLEAN :
          HelperCall(text, dimensions, normalize)
    \/ HelperReturn
    \/ ServiceAnswer
    \/ NewTitanV2Model
    \/ \E name \in EncodeOps, text_list \in TextLists, kwargs \in KwargsSet :
          EncodeCall(name, text_list, kwargs)
    \/ LoopSend
    \/ LoopReceive
    \/ LoopDone
    \/ CellDone

Spec == Init /\ [][Next]_vars

\* ------------------------------------------------------------------ claims
Dimensions(req) == JsonLoads(req.body)["dimensions"]
Running == pc \in {"loop", "calling"}

\* C1: a helper call that returns hands back exactly the 'embedding' vector
\* the endpoint put into its response to that call, so its length is the
\* dimensions the call asked for; the same holds for every helper call made
\* inside an encode* batch.
C1_HelperReturnsTheEmbedding ==
    /\ (op = "helper" /\ pc = "done" /\ result.kind = "return") =>
          /\ \E v \in 1..MaxVal : /\ recvd[1] = OkReply(Vec(args.dimensions, v))
                                  /\ result.value = Vec(args.dimensions, v)
          /\ result.value.n = args.dimensions
    /\ (op \in EncodeOps /\ Running) =>
          \A k \in 1..Len(list_embeddings) :
              /\ recvd[k] = OkReply(list_embeddings[k])
              /\ list_embeddings[k].n = Dimensions(sent[k])

C1_Witness ==
    /\ op = "helper" /\ pc = "done" /\ result.kind = "return"
    /\ args.dimensions = 512 /\ result.value.n = 512

\* C2: every request sent by the helper or by the adapter carries a dimension
\* in {256, 512, 1024}, whatever dimensions argument the caller passes.
C2_EveryRequestHasValidDimension ==
    \A k \in 1..Len(sent) : Dimensions(sent[k]) \in {256, 512, 1024}

\* C3: during invoke_model at most one remote call is outstanding, and the
\* request for item i+1 is sent only once the response for item i has been
\* received and appended to list_embeddings.
C3_OneRequestAtATime ==
    /\ Len(wire) <= 1
    /\ Len(sent) - Len(recvd) <= 1
    /\ (op \in EncodeOps /\ Running) =>
          /\ Len(recvd) = Len(list_embeddings)
          /\ idx = Len(list_embeddings)
          /\ pc = "loop" => (Len(sent) = Len(list_embeddings) /\ wire = <<>>)
          /\ pc = "calling" => Len(sent) = Len(list_embeddings) + 1

C3_Witness ==
    /\ op \in EncodeOps /\ pc = "calling"
    /\ Len(sent) = 2 /\ Len(list_embeddings) = 1 /\ Len(wire) = 1

\* C4: a failed remote call ends the operation with that error: nothing is
\* sent after a failure (the failed request is not sent again, no later item
\* is requested: k requests when the k-th fails), no list of embeddings is
\* returned, and the only retry setting is the client's max_attempts 10 in
\* standard mode.
C4_NoRetryNoRecovery ==
    /\ \A k \in 1..Len(recvd) :
          recvd[k].status = "error" =>
              /\ k = Len(recvd) /\ Len(sent) = k
              /\ pc = "done"
              /\ result = Raise(recvd[k].error)
              /\ list_embeddings = <<>>
              /\ op \in EncodeOps =>
                    \A j \in 1..k :
                        JsonLoads(sent[j].body)["inputText"] = reorg_text(args.text_list[j])
    /\ boto3_bedrock_runtime.retries = [max_attempts |-> 10, mode |-> "standard"]
    /\ \A k \in 1..Len(sent) :
          sent[k].via.retries = [max_attempts |-> 10, mode |-> "standard"]

C4_Witness ==
    /\ op \in EncodeOps /\ pc = "done" /\ result.kind = "raise"
    /\ Len(args.text_list) = 2 /\ Len(sent) = 1

\* C5: an encode* call whose remote calls all succeed sends exactly one
\* request per input item, in input order, and returns exactly one row per
\* item, row i being the embedding answered to the request built from item i.
C5_OneRowPerItemInOrder ==
    (op \in EncodeOps /\ pc = "done" /\ result.kind = "return") =>
        LET n == Len(args.text_list)
        IN  /\ Len(sent) = n
            /\ Len(result.value.rows) = n
            /\ result.value.shape[1] = n
            /\ \A k \in 1..n :
                  /\ JsonLoads(sent[k].body)["inputText"] = reorg_text(args.text_list[k])
                  /\ recvd[k] = OkReply(result.value.rows[k])

C5_Witness ==
    /\ op = "encode_corpus" /\ pc = "done" /\ result.kind = "return"
    /\ Len(args.text_list) = 2
    /\ result.value.rows[1] # result.value.rows[2]
    /\ sent[1] # sent[2]

\* C6: a helper call leaves the helper's model_id and client as constructed
\* and sends exactly one request, to that model_id through that client, whose
\* body holds exactly the text, dimensions and normalize it was given.
C6_HelperIsStateless ==
    /\ bedrock_embeddings = TitanEmbeddings__init__(TitanModelId, DefaultClient(AWS_PROFILE))
    /\ (op = "helper" /\ pc \in {"calling", "done"}) =>
          /\ Len(sent) = 1
          /\ sent[1].modelId = "amazon.titan-embed-text-v2:0"
          /\ sent[1].via = boto3_bedrock_runtime
          /\ DOMAIN JsonLoads(sent[1].body) = {"inputText", "dimensions", "normalize"}
          /\ JsonLoads(sent[1].body)["inputText"] = args.text
          /\ JsonLoads(sent[1].body)["dimensions"] = args.dimensions
          /\ JsonLoads(sent[1].body)["normalize"] = args.normalize

C6_Witness ==
    /\ op = "helper" /\ pc = "done"
    /\ args.normalize = FALSE /\ args.dimensions = 1024 /\ args.text = <<"a">>
    /\ model.constructed

\* C7: called with the direct call's text, dimensions and normalize flag, the
\* helper sends the request the direct call of cell 10 sends (body, model id,
\* accept, content type, client) and returns what the direct call extracts
\* from the same response.
C7_HelperMatchesDirectCall ==
    (/\ op = "helper" /\ pc \in {"calling", "done"}
     /\ args.text = prompt_data /\ args.dimensions = 256 /\ args.normalize) =>
        /\ sent = <<DirectRequest(boto3_bedrock_runtime)>>
        /\ (pc = "done" /\ recvd[1].status = "ok") =>
              result = Return(DirectResult(recvd[1]))
        /\ (pc = "done" /\ recvd[1].status = "error") =>
              result = Raise(recvd[1].error)

C7_Witness ==
    /\ op = "helper" /\ pc = "done" /\ result.kind = "return"
    /\ args.text = prompt_data /\ args.dimensions = 256 /\ args.normalize

\* C8: a TitanV2Model as constructed requests every item of every encode*
\* call with dimensions 256 and normalize true, whatever keyword arguments
\* the caller passes, and every row it collects or returns has 256 values.
C8_AdapterAlwaysAsks256Normalized ==
    /\ model.constructed => model.dim = 256
    /\ op \in EncodeOps =>
          /\ \A k \in 1..Len(sent) :
                /\ JsonLoads(sent[k].body)["dimensions"] = 256
                /\ JsonLoads(sent[k].body)["normalize"] = TRUE
          /\ \A k \in 1..Len(list_embeddings) : list_embeddings[k].n = 256
          /\ (pc = "done" /\ result.kind = "return") =>
                /\ \A k \in 1..Len(result.value.rows) : result.value.rows[k].n = 256
                /\ args.text_list # <<>> =>
                      result.value.shape = <<Len(args.text_list), 256>>

C8_Witness ==
    /\ op = "encode_queries" /\ pc = "done" /\ result.kind = "return"
    /\ args.kwargs # <<>>
    /\ Len(result.value.rows) = 2

====
